---- MODULE Spec2Model ----
(***************************************************************************)
(* Chatwork task memo: the page component (src/app/page.tsx) with its      *)
(* localStorage-backed room-list cache and two-call task submission, and   *)
(* the three forwarding route handlers it talks to.                        *)
(*                                                                         *)
(* Strings are sequences of UTF-16 code units, as JavaScript's .length,    *)
(* .substring and .trim see them.  JSON values are tagged records          *)
(* [t |-> tag, v |-> payload].  The clock is Date.now() in milliseconds,   *)
(* counted from a small origin so that every value fits TLC's integers.    *)
(***************************************************************************)
EXTENDS Integers, Sequences, FiniteSets, TLC

(***************************************************************************)
(* Bounds of the model                                                     *)
(***************************************************************************)
\* number of clicks (save, refresh, send) and reloads in one behaviour
MaxClicks == 2
\* number of handler runs that wait for a fetch when a click starts one more
MaxPending == 2
\* index of the last value the clock reaches in one behaviour
MaxTicks == 2
\* length of the longest non-JSON upstream body
MaxTextLen == 201

(***************************************************************************)
(* String literals of the source, as UTF-16 code units                     *)
(***************************************************************************)
\* page.tsx:46  "APIトークンが設定されていません。"
MSG_TOKEN_NOT_SET == <<65, 80, 73, 12488, 12540, 12463, 12531, 12364, 35373, 23450, 12373, 12428, 12390, 12356, 12414, 12379, 12435, 12290>>
\* page.tsx:66  "キャッシュからルーム一覧を読み込みました。"
MSG_CACHE_LOADED == <<12461, 12515, 12483, 12471, 12517, 12363, 12425, 12523, 12540, 12512, 19968, 35239, 12434, 35501, 12415, 36796, 12415, 12414, 12375, 12383, 12290>>
\* page.tsx:74  "ルーム一覧のキャッシュが期限切れです。更新中..."
MSG_CACHE_EXPIRED == <<12523, 12540, 12512, 19968, 35239, 12398, 12461, 12515, 12483, 12471, 12517, 12364, 26399, 38480, 20999, 12428, 12391, 12377, 12290, 26356, 26032, 20013, 46, 46, 46>>
\* page.tsx:80  "ルーム一覧をChatwork APIから取得中..."
MSG_LOADING == <<12523, 12540, 12512, 19968, 35239, 12434, 67, 104, 97, 116, 119, 111, 114, 107, 32, 65, 80, 73, 12363, 12425, 21462, 24471, 20013, 46, 46, 46>>
\* page.tsx:97  "ルーム一覧の取得が完了しました。"
MSG_ROOMS_DONE == <<12523, 12540, 12512, 19968, 35239, 12398, 21462, 24471, 12364, 23436, 20102, 12375, 12414, 12375, 12383, 12290>>
\* page.tsx:104  "Chatwork APIエラー（ルーム一覧取得）: "
ROOMS_ERR_PREFIX == <<67, 104, 97, 116, 119, 111, 114, 107, 32, 65, 80, 73, 12456, 12521, 12540, 65288, 12523, 12540, 12512, 19968, 35239, 21462, 24471, 65289, 58, 32>>
\* page.tsx:109  "ルーム一覧の取得に失敗しました: "
MSG_ROOMS_FAIL_PREFIX == <<12523, 12540, 12512, 19968, 35239, 12398, 21462, 24471, 12395, 22833, 25943, 12375, 12414, 12375, 12383, 58, 32>>
\* page.tsx:124  "Chatwork APIトークンを入力してください。"
MSG_ENTER_TOKEN_PROMPT == <<67, 104, 97, 116, 119, 111, 114, 107, 32, 65, 80, 73, 12488, 12540, 12463, 12531, 12434, 20837, 21147, 12375, 12390, 12367, 12384, 12373, 12356, 12290>>
\* page.tsx:135  "APIトークンを入力してください。"
MSG_ENTER_TOKEN == <<65, 80, 73, 12488, 12540, 12463, 12531, 12434, 20837, 21147, 12375, 12390, 12367, 12384, 12373, 12356, 12290>>
\* page.tsx:147  "APIトークンが設定されていません。先にトークンを保存してください。"
MSG_SAVE_FIRST == <<65, 80, 73, 12488, 12540, 12463, 12531, 12364, 35373, 23450, 12373, 12428, 12390, 12356, 12414, 12379, 12435, 12290, 20808, 12395, 12488, 12540, 12463, 12531, 12434, 20445, 23384, 12375, 12390, 12367, 12384, 12373, 12356, 12290>>
\* page.tsx:165  "タスクを飛ばすルームを選択してください。"
MSG_SELECT_ROOM == <<12479, 12473, 12463, 12434, 39131, 12400, 12377, 12523, 12540, 12512, 12434, 36984, 25246, 12375, 12390, 12367, 12384, 12373, 12356, 12290>>
\* page.tsx:169  "メモが空です。何か入力してください。"
MSG_MEMO_EMPTY == <<12513, 12514, 12364, 31354, 12391, 12377, 12290, 20309, 12363, 20837, 21147, 12375, 12390, 12367, 12384, 12373, 12356, 12290>>
\* page.tsx:173  "タスクを送信中..."
MSG_SENDING == <<12479, 12473, 12463, 12434, 36865, 20449, 20013, 46, 46, 46>>
\* page.tsx:189  "Chatwork APIエラー（自分の情報取得）: "
ME_ERR_PREFIX == <<67, 104, 97, 116, 119, 111, 114, 107, 32, 65, 80, 73, 12456, 12521, 12540, 65288, 33258, 20998, 12398, 24773, 22577, 21462, 24471, 65289, 58, 32>>
\* page.tsx:216  "✅ タスクを送信しました！"
MSG_SENT == <<9989, 32, 12479, 12473, 12463, 12434, 36865, 20449, 12375, 12414, 12375, 12383, 65281>>
\* page.tsx:221  "Chatwork APIエラー: "
TASK_ERR_PREFIX == <<67, 104, 97, 116, 119, 111, 114, 107, 32, 65, 80, 73, 12456, 12521, 12540, 58, 32>>
\* page.tsx:226  "❌ タスク送信に失敗しました: "
SEND_FAIL_PREFIX == <<10060, 32, 12479, 12473, 12463, 36865, 20449, 12395, 22833, 25943, 12375, 12414, 12375, 12383, 58, 32>>
\* page.tsx:229  "..."
ELLIPSIS == <<46, 46, 46>>
\* page.tsx:104  " - "
SEP_DASH == <<32, 45, 32>>
\* page.tsx:192  "account_id"
KEY_ACCOUNT_ID == <<97, 99, 99, 111, 117, 110, 116, 95, 105, 100>>
\* page.tsx:298  "room_id"
KEY_ROOM_ID == <<114, 111, 111, 109, 95, 105, 100>>
\* api/chatwork/rooms/route.ts:22  "error"
KEY_ERROR == <<101, 114, 114, 111, 114>>
\* api/chatwork/rooms/route.ts:46  "details"
KEY_DETAILS == <<100, 101, 116, 97, 105, 108, 115>>
\* api/chatwork/rooms/[roomId]/tasks/route.ts:130  "statusFromChatwork"
KEY_STATUS_FROM == <<115, 116, 97, 116, 117, 115, 70, 114, 111, 109, 67, 104, 97, 116, 119, 111, 114, 107>>
\* api/chatwork/rooms/route.ts:22  "Chatwork API Token is missing."
ERR_TOKEN_MISSING_ROOMS == <<67, 104, 97, 116, 119, 111, 114, 107, 32, 65, 80, 73, 32, 84, 111, 107, 101, 110, 32, 105, 115, 32, 109, 105, 115, 115, 105, 110, 103, 46>>
\* api/chatwork/rooms/route.ts:46  "Chatwork API returned non-JSON response or empty response for /rooms."
ERR_NONJSON_ROOMS == <<67, 104, 97, 116, 119, 111, 114, 107, 32, 65, 80, 73, 32, 114, 101, 116, 117, 114, 110, 101, 100, 32, 110, 111, 110, 45, 74, 83, 79, 78, 32, 114, 101, 115, 112, 111, 110, 115, 101, 32, 111, 114, 32, 101, 109, 112, 116, 121, 32, 114, 101, 115, 112, 111, 110, 115, 101, 32, 102, 111, 114, 32, 47, 114, 111, 111, 109, 115, 46>>
\* api/chatwork/rooms/route.ts:63  "Failed to connect to Chatwork API for rooms."
ERR_CONNECT_ROOMS == <<70, 97, 105, 108, 101, 100, 32, 116, 111, 32, 99, 111, 110, 110, 101, 99, 116, 32, 116, 111, 32, 67, 104, 97, 116, 119, 111, 114, 107, 32, 65, 80, 73, 32, 102, 111, 114, 32, 114, 111, 111, 109, 115, 46>>
\* api/chatwork/rooms/[roomId]/tasks/route.ts:27  "Chatwork API Token is missing."
ERR_TOKEN_MISSING_TASKS == <<67, 104, 97, 116, 119, 111, 114, 107, 32, 65, 80, 73, 32, 84, 111, 107, 101, 110, 32, 105, 115, 32, 109, 105, 115, 115, 105, 110, 103, 46>>
\* api/chatwork/rooms/[roomId]/tasks/route.ts:33  "Room ID is missing from URL."
ERR_ROOMID_MISSING == <<82, 111, 111, 109, 32, 73, 68, 32, 105, 115, 32, 109, 105, 115, 115, 105, 110, 103, 32, 102, 114, 111, 109, 32, 85, 82, 76, 46>>
\* api/chatwork/rooms/[roomId]/tasks/route.ts:57  "Invalid form data format."
ERR_FORM_INVALID == <<73, 110, 118, 97, 108, 105, 100, 32, 102, 111, 114, 109, 32, 100, 97, 116, 97, 32, 102, 111, 114, 109, 97, 116, 46>>
\* api/chatwork/rooms/[roomId]/tasks/route.ts:64  "Parameter 'body' (message) is required."
ERR_BODY_REQUIRED == <<80, 97, 114, 97, 109, 101, 116, 101, 114, 32, 39, 98, 111, 100, 121, 39, 32, 40, 109, 101, 115, 115, 97, 103, 101, 41, 32, 105, 115, 32, 114, 101, 113, 117, 105, 114, 101, 100, 46>>
\* api/chatwork/rooms/[roomId]/tasks/route.ts:68  "Parameter 'to_ids' is required."
ERR_TOIDS_REQUIRED == <<80, 97, 114, 97, 109, 101, 116, 101, 114, 32, 39, 116, 111, 95, 105, 100, 115, 39, 32, 105, 115, 32, 114, 101, 113, 117, 105, 114, 101, 100, 46>>
\* api/chatwork/rooms/[roomId]/tasks/route.ts:72  "Parameter 'limit' is required."
ERR_LIMIT_REQUIRED == <<80, 97, 114, 97, 109, 101, 116, 101, 114, 32, 39, 108, 105, 109, 105, 116, 39, 32, 105, 115, 32, 114, 101, 113, 117, 105, 114, 101, 100, 46>>
\* api/chatwork/rooms/[roomId]/tasks/route.ts:128  "Chatwork API returned non-JSON response."
ERR_NONJSON_TASKS == <<67, 104, 97, 116, 119, 111, 114, 107, 32, 65, 80, 73, 32, 114, 101, 116, 117, 114, 110, 101, 100, 32, 110, 111, 110, 45, 74, 83, 79, 78, 32, 114, 101, 115, 112, 111, 110, 115, 101, 46>>
\* api/chatwork/rooms/[roomId]/tasks/route.ts:148  "Failed to connect to Chatwork API or network error."
ERR_CONNECT_TASKS == <<70, 97, 105, 108, 101, 100, 32, 116, 111, 32, 99, 111, 110, 110, 101, 99, 116, 32, 116, 111, 32, 67, 104, 97, 116, 119, 111, 114, 107, 32, 65, 80, 73, 32, 111, 114, 32, 110, 101, 116, 119, 111, 114, 107, 32, 101, 114, 114, 111, 114, 46>>
\* part_000:7  "APIトークンがありません"
ERR_TOKEN_MISSING_ME == <<65, 80, 73, 12488, 12540, 12463, 12531, 12364, 12354, 12426, 12414, 12379, 12435>>
\* part_000:24  "APIエラーが発生しました"
ERR_API_ME == <<65, 80, 73, 12456, 12521, 12540, 12364, 30330, 29983, 12375, 12414, 12375, 12383>>

(***************************************************************************)
(* JavaScript string primitives                                            *)
(***************************************************************************)
\* String.prototype.trim strips these (the ASCII part of WhiteSpace and
\* LineTerminator, plus U+00A0, U+3000 and U+FEFF)
WhiteSpace == {9, 10, 11, 12, 13, 32, 160, 12288, 65279}

RECURSIVE TrimStart(_)
TrimStart(s) == IF s # <<>> /\ Head(s) \in WhiteSpace THEN TrimStart(Tail(s)) ELSE s

RECURSIVE TrimEnd(_)
TrimEnd(s) == IF s # <<>> /\ s[Len(s)] \in WhiteSpace THEN TrimEnd(SubSeq(s, 1, Len(s) - 1)) ELSE s

Trim(s) == TrimEnd(TrimStart(s))

\* s.substring(0, n)
Substring0(s, n) == SubSeq(s, 1, IF n < Len(s) THEN n ELSE Len(s))

Digits == 48..57

\* Number.prototype.toString for a non-negative integer
RECURSIVE NatToStr(_)
NatToStr(n) == IF n < 10 THEN <<48 + n>> ELSE NatToStr(n \div 10) \o <<48 + (n % 10)>>

\* value of the run of digits of s that starts at position i, as [n, i]:
\* the number read so far and the position after the run
RECURSIVE DigitRun(_, _, _)
DigitRun(s, i, acc) == IF i <= Len(s) /\ s[i] \in Digits THEN DigitRun(s, i + 1, acc * 10 + (s[i] - 48)) ELSE [n |-> acc, i |-> i]

\* parseInt(s, 10): leading white space, an optional sign, then the longest
\* run of digits; NaN when there is no digit
ParseInt(s) ==
    LET t == TrimStart(s)
        neg == t # <<>> /\ t[1] = 45
        u == IF t # <<>> /\ t[1] \in {43, 45} THEN Tail(t) ELSE t
        r == DigitRun(u, 1, 0)
    IN  IF r.i = 1 THEN [nan |-> TRUE, n |-> 0]
        ELSE [nan |-> FALSE, n |-> IF neg THEN 0 - r.n ELSE r.n]

(***************************************************************************)
(* JSON values, JSON.stringify and JSON.parse                              *)
(***************************************************************************)
JNull == [t |-> "null", v |-> 0]
JUndef == [t |-> "undef", v |-> 0]
JBool(b) == [t |-> "bool", v |-> b]
JNum(n) == [t |-> "num", v |-> n]
JStr(s) == [t |-> "str", v |-> s]
JArr(a) == [t |-> "arr", v |-> a]
\* an object is the sequence of its <<key, value>> members, in insertion order
JObj(m) == [t |-> "obj", v |-> m]

\* the least element of a non-empty set of positions
First(S) == CHOOSE k \in S : \A m \in S : k <= m

\* JSON.stringify of a string: quotes, with " and \ escaped.  The string is
\* copied up to each character to escape
RECURSIVE Escape(_)
Escape(s) ==
    LET E == {k \in 1..Len(s) : s[k] \in {34, 92}}
    IN  IF E = {} THEN s
        ELSE SubSeq(s, 1, First(E) - 1) \o <<92, s[First(E)]>> \o Escape(SubSeq(s, First(E) + 1, Len(s)))

Quote(s) == <<34>> \o Escape(s) \o <<34>>

RECURSIVE Stringify(_)
RECURSIVE StringifyElems(_)
RECURSIVE StringifyMembers(_)
StringifyElems(a) == IF a = <<>> THEN <<>> ELSE Stringify(Head(a)) \o (IF Len(a) > 1 THEN <<44>> ELSE <<>>) \o StringifyElems(Tail(a))

StringifyMembers(m) == IF m = <<>> THEN <<>> ELSE Quote(Head(m)[1]) \o <<58>> \o Stringify(Head(m)[2]) \o (IF Len(m) > 1 THEN <<44>> ELSE <<>>) \o StringifyMembers(Tail(m))

Stringify(j) ==
    CASE j.t = "null" -> <<110, 117, 108, 108>>
      [] j.t = "bool" -> IF j.v THEN <<116, 114, 117, 101>> ELSE <<102, 97, 108, 115, 101>>
      [] j.t = "num" -> IF j.v < 0 THEN <<45>> \o NatToStr(0 - j.v) ELSE NatToStr(j.v)
      [] j.t = "str" -> Quote(j.v)
      [] j.t = "arr" -> <<91>> \o StringifyElems(j.v) \o <<93>>
      [] j.t = "obj" -> <<123>> \o StringifyMembers(j.v) \o <<125>>

JsonWs == {9, 10, 13, 32}

RECURSIVE SkipWs(_, _)
SkipWs(s, i) == IF i <= Len(s) /\ s[i] \in JsonWs THEN SkipWs(s, i + 1) ELSE i

ParseFail == [ok |-> FALSE, v |-> JNull, i |-> 0]

\* the characters of a string literal whose opening quote is before position
\* i.  Escapes \" \\ \/ are read, any other escape and any control character
\* is a syntax error (the bodies of the model contain none of the others)
RECURSIVE ParseChars(_, _, _)
\* the string literal from position i to its next special character, at k
CharsTo(s, i, k, acc) ==
    IF s[k] < 32 THEN ParseFail
    ELSE IF s[k] = 34 THEN [ok |-> TRUE, v |-> JStr(acc \o SubSeq(s, i, k - 1)), i |-> k + 1]
    ELSE IF k + 1 <= Len(s) /\ s[k + 1] \in {34, 92, 47} THEN ParseChars(s, k + 2, Append(acc \o SubSeq(s, i, k - 1), s[k + 1]))
    ELSE ParseFail

CharsStops(s, i, stops, acc) == IF stops = {} THEN ParseFail ELSE CharsTo(s, i, First(stops), acc)

ParseChars(s, i, acc) == CharsStops(s, i, {k \in i..Len(s) : s[k] \in {34, 92} \/ s[k] < 32}, acc)

\* an integer literal: -? (0 | [1-9][0-9]*); a fraction or an exponent is
\* left unread and so ends as a syntax error (no body of the model has one)
NumberRead(s, j, r, neg) ==
    IF r.i = j \/ (s[j] = 48 /\ r.i > j + 1) THEN ParseFail
    ELSE [ok |-> TRUE, v |-> JNum(IF neg THEN 0 - r.n ELSE r.n), i |-> r.i]

ParseNumber(s, i) == NumberRead(s, IF s[i] = 45 THEN i + 1 ELSE i, DigitRun(s, IF s[i] = 45 THEN i + 1 ELSE i, 0), s[i] = 45)

RECURSIVE ParseValue(_, _)
RECURSIVE ParseElems(_, _, _)
RECURSIVE ParseMembers(_, _, _)
\* after an element, position j: ] ends the array, a comma goes on
ElemEnd(s, j, acc) ==
    IF j > Len(s) THEN ParseFail
    ELSE IF s[j] = 93 THEN [ok |-> TRUE, v |-> JArr(acc), i |-> j + 1]
    ELSE IF s[j] = 44 THEN ParseElems(s, j + 1, acc)
    ELSE ParseFail

\* the element e has been read
ElemRead(s, e, acc) == IF e.ok THEN ElemEnd(s, SkipWs(s, e.i), Append(acc, e.v)) ELSE ParseFail

\* elements of an array, position i is at the start of an element
ParseElems(s, i, acc) == ElemRead(s, ParseValue(s, SkipWs(s, i)), acc)

\* after a member, position j: } ends the object, a comma goes on
MemberEnd(s, j, acc) ==
    IF j > Len(s) THEN ParseFail
    ELSE IF s[j] = 125 THEN [ok |-> TRUE, v |-> JObj(acc), i |-> j + 1]
    ELSE IF s[j] = 44 THEN ParseMembers(s, j + 1, acc)
    ELSE ParseFail

\* the value e of the member key has been read
MemberRead(s, key, e, acc) == IF e.ok THEN MemberEnd(s, SkipWs(s, e.i), Append(acc, <<key, e.v>>)) ELSE ParseFail

\* the colon after the key, at position c, then the value
MemberColon(s, key, c, acc) ==
    IF c <= Len(s) /\ s[c] = 58 THEN MemberRead(s, key, ParseValue(s, SkipWs(s, c + 1)), acc) ELSE ParseFail

\* the key k has been read
MemberKey(s, k, acc) == IF k.ok THEN MemberColon(s, k.v.v, SkipWs(s, k.i), acc) ELSE ParseFail

\* the opening quote of a key, at position k0
MemberStart(s, k0, acc) ==
    IF k0 <= Len(s) /\ s[k0] = 34 THEN MemberKey(s, ParseChars(s, k0 + 1, <<>>), acc) ELSE ParseFail

\* members of an object, position i is at the start of a key
ParseMembers(s, i, acc) == MemberStart(s, SkipWs(s, i), acc)

\* after [ or {, position j: the closing character of an empty array or
\* object, or the first element or member
ArrayFrom(s, j) == IF j <= Len(s) /\ s[j] = 93 THEN [ok |-> TRUE, v |-> JArr(<<>>), i |-> j + 1] ELSE ParseElems(s, j, <<>>)

ObjectFrom(s, j) == IF j <= Len(s) /\ s[j] = 125 THEN [ok |-> TRUE, v |-> JObj(<<>>), i |-> j + 1] ELSE ParseMembers(s, j, <<>>)

ParseValue(s, i) ==
    IF i > Len(s) THEN ParseFail
    ELSE IF s[i] = 34 THEN ParseChars(s, i + 1, <<>>)
    ELSE IF s[i] = 45 \/ s[i] \in Digits THEN ParseNumber(s, i)
    ELSE IF s[i] = 91 THEN ArrayFrom(s, SkipWs(s, i + 1))
    ELSE IF s[i] = 123 THEN ObjectFrom(s, SkipWs(s, i + 1))
    ELSE IF i + 3 <= Len(s) /\ SubSeq(s, i, i + 3) = <<110, 117, 108, 108>> THEN [ok |-> TRUE, v |-> JNull, i |-> i + 4]
    ELSE IF i + 3 <= Len(s) /\ SubSeq(s, i, i + 3) = <<116, 114, 117, 101>> THEN [ok |-> TRUE, v |-> JBool(TRUE), i |-> i + 4]
    ELSE IF i + 4 <= Len(s) /\ SubSeq(s, i, i + 4) = <<102, 97, 108, 115, 101>> THEN [ok |-> TRUE, v |-> JBool(FALSE), i |-> i + 5]
    ELSE ParseFail

\* the value r has been read: only white space may follow it
ParseEnd(s, r) == IF r.ok /\ SkipWs(s, r.i) = Len(s) + 1 THEN [ok |-> TRUE, v |-> r.v] ELSE [ok |-> FALSE, v |-> JNull]

\* JSON.parse of the text s, read character by character
ParseText(s) == ParseEnd(s, ParseValue(s, SkipWs(s, 1)))

(***************************************************************************)
(* The JSON values and texts of the upstream API and of the cache          *)
(***************************************************************************)
KEY_NAME == <<110, 97, 109, 101>>

Room(id, name) == JObj(<<<<KEY_ROOM_ID, JNum(id)>>, <<KEY_NAME, JStr(name)>>>>)

\* [{"room_id":1,"name":"General"}]
RoomsA == JArr(<<Room(1, <<71, 101, 110, 101, 114, 97, 108>>)>>)

\* [{"room_id":2,"name":"Dev"}]
RoomsB == JArr(<<Room(2, <<68, 101, 118>>)>>)

\* {"errors":["Invalid API Token"]}
UpstreamError == JObj(<<<<<<101, 114, 114, 111, 114, 115>>, JArr(<<JStr(<<73, 110, 118, 97, 108, 105, 100, 32, 65, 80, 73, 32, 84, 111, 107, 101, 110>>)>>)>>>>)

\* {"account_id":42}
MeBody == JObj(<<<<KEY_ACCOUNT_ID, JNum(42)>>>>)

\* {"task_ids":[7]}
TaskBody == JObj(<<<<<<116, 97, 115, 107, 95, 105, 100, 115>>, JArr(<<JNum(7)>>)>>>>)

\* a body of n characters that is not JSON: "xxx...x"
Filler(n) == [k \in 1..n |-> 120]

\* an unparsable cache payload: "[{"
CorruptPayload == <<91, 123>>

\* the texts above, which the behaviours parse time and again, and their
\* values, parsed once
KnownTexts == {Stringify(RoomsA), Stringify(RoomsB), Stringify(UpstreamError), Stringify(MeBody), Stringify(JObj(<<>>)), Stringify(TaskBody), CorruptPayload}

ParsedOnce == {<<s, ParseText(s)>> : s \in KnownTexts}

\* JSON.parse(s): [ok |-> FALSE] stands for the SyntaxError it throws
JsonParse(s) == IF s \in KnownTexts THEN (CHOOSE p \in ParsedOnce : p[1] = s)[2] ELSE ParseText(s)

\* obj.key of an object value; undefined when the key is not there (the
\* last member of a duplicated key wins, as JSON.parse builds it)
RECURSIVE Lookup(_, _)
Lookup(m, key) == IF m = <<>> THEN JUndef ELSE IF m[Len(m)][1] = key THEN m[Len(m)][2] ELSE Lookup(SubSeq(m, 1, Len(m) - 1), key)

\* j.key as JavaScript evaluates it on a parsed JSON value: a TypeError on
\* null, undefined for any other value without that own property
Prop(j, key) == IF j.t = "obj" THEN Lookup(j.v, key) ELSE JUndef

(***************************************************************************)
(* Text produced by the runtime, not by the source                         *)
(***************************************************************************)
\* message of the TypeError a rejected browser fetch carries: "Failed to fetch"
MSG_FETCH_REJECTED == <<70, 97, 105, 108, 101, 100, 32, 116, 111, 32, 102, 101, 116, 99, 104>>
\* message of the TypeError a rejected server-side fetch carries: "fetch failed"
MSG_FETCH_FAILED == <<102, 101, 116, 99, 104, 32, 102, 97, 105, 108, 101, 100>>
\* message of the SyntaxError of response.json(): "Unexpected end of JSON input"
MSG_JSON_SYNTAX == <<85, 110, 101, 120, 112, 101, 99, 116, 101, 100, 32, 101, 110, 100, 32, 111, 102, 32, 74, 83, 79, 78, 32, 105, 110, 112, 117, 116>>
\* "Cannot read properties of undefined (reading 'toString')"
MSG_UNDEF_TOSTRING == <<67, 97, 110, 110, 111, 116, 32, 114, 101, 97, 100, 32, 112, 114, 111, 112, 101, 114, 116, 105, 101, 115, 32, 111, 102, 32, 117, 110, 100, 101, 102, 105, 110, 101, 100, 32, 40, 114, 101, 97, 100, 105, 110, 103, 32, 39, 116, 111, 83, 116, 114, 105, 110, 103, 39, 41>>
\* "Cannot read properties of null (reading 'account_id')"
MSG_NULL_ACCOUNT_ID == <<67, 97, 110, 110, 111, 116, 32, 114, 101, 97, 100, 32, 112, 114, 111, 112, 101, 114, 116, 105, 101, 115, 32, 111, 102, 32, 110, 117, 108, 108, 32, 40, 114, 101, 97, 100, 105, 110, 103, 32, 39, 97, 99, 99, 111, 117, 110, 116, 95, 105, 100, 39, 41>>
\* "Cannot read properties of null (reading 'toString')"
MSG_NULL_TOSTRING == <<67, 97, 110, 110, 111, 116, 32, 114, 101, 97, 100, 32, 112, 114, 111, 112, 101, 114, 116, 105, 101, 115, 32, 111, 102, 32, 110, 117, 108, 108, 32, 40, 114, 101, 97, 100, 105, 110, 103, 32, 39, 116, 111, 83, 116, 114, 105, 110, 103, 39, 41>>
\* "[object Object]"
STR_OBJECT_OBJECT == <<91, 111, 98, 106, 101, 99, 116, 32, 79, 98, 106, 101, 99, 116, 93>>

(***************************************************************************)
(* HTTP                                                                    *)
(***************************************************************************)
\* a value that may be missing: a header, a form field, a localStorage item
Absent == [present |-> FALSE, v |-> <<>>]
Present(s) == [present |-> TRUE, v |-> s]

\* !x is false: x is neither null nor the empty string
Truthy(x) == x.present /\ x.v # <<>>

\* Response.ok
IsOk(status) == status >= 200 /\ status <= 299

HttpWs == {9, 10, 13, 32}

RECURSIVE StripHttpWsStart(_)
StripHttpWsStart(s) == IF s # <<>> /\ Head(s) \in HttpWs THEN StripHttpWsStart(Tail(s)) ELSE s

RECURSIVE StripHttpWsEnd(_)
StripHttpWsEnd(s) == IF s # <<>> /\ s[Len(s)] \in HttpWs THEN StripHttpWsEnd(SubSeq(s, 1, Len(s) - 1)) ELSE s

\* the header value the route handler reads for a value the page passed to
\* fetch: Headers strips leading and trailing HTTP white space
HeaderValue(s) == Present(StripHttpWsEnd(StripHttpWsStart(s)))

\* what the upstream API answers: a transport failure, or a status and a body
UpErr == [err |-> TRUE, status |-> 0, text |-> <<>>]
UpResp(status, text) == [err |-> FALSE, status |-> status, text |-> text]

\* NextResponse.json(obj, {status}); called: the handler issued its upstream
\* call; sent: the form fields of that call (task creation only)
NoFields == [body |-> <<>>, to_ids |-> <<>>, limit |-> <<>>]
Reply(status, obj, called, sent) == [status |-> status, body |-> Stringify(obj), called |-> called, sent |-> sent]

ErrorObj(msg) == JObj(<<<<KEY_ERROR, JStr(msg)>>>>)

\* chatworkResponse.status || 500
StatusOr500(status) == IF status = 0 THEN 500 ELSE status

(***************************************************************************)
(* GET /api/chatwork/rooms                                                 *)
(***************************************************************************)
\* the body of the reply to an upstream body that is not JSON
RoomsNonJsonObj(text) == JObj(<<<<KEY_ERROR, JStr(ERR_NONJSON_ROOMS)>>, <<KEY_DETAILS, JStr(text)>>>>)

RoomsGET(token, up) ==
    IF ~Truthy(token) THEN Reply(400, ErrorObj(ERR_TOKEN_MISSING_ROOMS), FALSE, NoFields)
    ELSE IF up.err THEN Reply(500, ErrorObj(ERR_CONNECT_ROOMS), TRUE, NoFields)
    ELSE LET p == JsonParse(up.text)
         IN  IF ~p.ok THEN Reply(StatusOr500(up.status), RoomsNonJsonObj(up.text), TRUE, NoFields)
             ELSE Reply(up.status, p.v, TRUE, NoFields)

(***************************************************************************)
(* GET /api/chatwork/me                                                    *)
(***************************************************************************)
MeGET(token, up) ==
    IF ~Truthy(token) THEN Reply(401, ErrorObj(ERR_TOKEN_MISSING_ME), FALSE, NoFields)
    ELSE IF up.err \/ ~IsOk(up.status) THEN Reply(500, ErrorObj(ERR_API_ME), TRUE, NoFields)
    ELSE LET p == JsonParse(up.text)
         IN  IF ~p.ok THEN Reply(500, ErrorObj(ERR_API_ME), TRUE, NoFields)
             ELSE Reply(200, p.v, TRUE, NoFields)

(***************************************************************************)
(* POST /api/chatwork/rooms/[roomId]/tasks                                 *)
(***************************************************************************)
\* formData.get(name)?.toString() || null
FieldOrNull(f) == IF Truthy(f) THEN f ELSE Absent

\* the excerpt of a non-JSON upstream body
TasksDetails(text) == Substring0(text, 200) \o (IF Len(text) > 200 THEN <<46, 46, 46>> ELSE <<>>)

TasksNonJsonObj(up) == JObj(<<<<KEY_ERROR, JStr(ERR_NONJSON_TASKS)>>, <<KEY_DETAILS, JStr(TasksDetails(up.text))>>, <<KEY_STATUS_FROM, JNum(up.status)>>>>)

\* TasksPrecheck without the check of limit
TasksPrecheckNoLimit(roomId, token, form) ==
    LET message == FieldOrNull(form.body)
        to_ids == FieldOrNull(form.to_ids)
    IN  IF ~Truthy(token) THEN Reply(400, ErrorObj(ERR_TOKEN_MISSING_TASKS), FALSE, NoFields)
        ELSE IF roomId = <<>> THEN Reply(400, ErrorObj(ERR_ROOMID_MISSING), FALSE, NoFields)
        ELSE IF form.bad THEN Reply(400, ErrorObj(ERR_FORM_INVALID), FALSE, NoFields)
        ELSE IF ~Truthy(message) THEN Reply(400, ErrorObj(ERR_BODY_REQUIRED), FALSE, NoFields)
        ELSE IF ~Truthy(to_ids) THEN Reply(400, ErrorObj(ERR_TOIDS_REQUIRED), FALSE, NoFields)
        ELSE Reply(0, JNull, FALSE, NoFields)

\* the checks made before the upstream call: the reply of the first one that
\* fails, or status 0 when all pass
TasksPrecheck(roomId, token, form) ==
    LET message == FieldOrNull(form.body)
        to_ids == FieldOrNull(form.to_ids)
        limit == FieldOrNull(form.limit)
    IN  IF ~Truthy(token) THEN Reply(400, ErrorObj(ERR_TOKEN_MISSING_TASKS), FALSE, NoFields)
        ELSE IF roomId = <<>> THEN Reply(400, ErrorObj(ERR_ROOMID_MISSING), FALSE, NoFields)
        ELSE IF form.bad THEN Reply(400, ErrorObj(ERR_FORM_INVALID), FALSE, NoFields)
        ELSE IF ~Truthy(message) THEN Reply(400, ErrorObj(ERR_BODY_REQUIRED), FALSE, NoFields)
        ELSE IF ~Truthy(to_ids) THEN Reply(400, ErrorObj(ERR_TOIDS_REQUIRED), FALSE, NoFields)
        ELSE IF ~Truthy(limit) THEN Reply(400, ErrorObj(ERR_LIMIT_REQUIRED), FALSE, NoFields)
        ELSE Reply(0, JNull, FALSE, NoFields)

TasksPOST(roomId, token, form, up) ==
    LET pre == TasksPrecheck(roomId, token, form)
        sent == [body |-> form.body.v, to_ids |-> form.to_ids.v, limit |-> form.limit.v]
    IN  IF pre.status # 0 THEN pre
        ELSE IF up.err THEN Reply(500, JObj(<<<<KEY_ERROR, JStr(ERR_CONNECT_TASKS)>>, <<KEY_DETAILS, JStr(MSG_FETCH_FAILED)>>>>), TRUE, sent)
        ELSE LET p == JsonParse(up.text)
             IN  IF ~p.ok THEN Reply(StatusOr500(up.status), TasksNonJsonObj(up), TRUE, sent)
                 ELSE Reply(up.status, p.v, TRUE, sent)

(***************************************************************************)
(* The page: constants and pure parts of its handlers                      *)
(***************************************************************************)
CACHE_DURATION_MS == 1000 * 60 * 60 * 24

\* 60 * 60 * 24 * 7 in the limit field of handleSendTask
WEEK_SECONDS == 60 * 60 * 24 * 7

Status(text, type) == [text |-> text, type |-> type]

EmptyRooms == JArr(<<>>)

\* CacheFresh with <= for <
CacheFreshLe(clock, timestamp) == ~timestamp.nan /\ clock - timestamp.n <= CACHE_DURATION_MS

\* now - timestamp < CACHE_DURATION_MS; a comparison with NaN is false
CacheFresh(clock, timestamp) == ~timestamp.nan /\ clock - timestamp.n < CACHE_DURATION_MS

CacheMiss == [hit |-> FALSE, rooms |-> EmptyRooms, threw |-> FALSE]

\* CacheParse without the try around JSON.parse
CacheParseNoCatch(payload) ==
    LET p == JsonParse(payload)
    IN  IF p.ok THEN [hit |-> TRUE, rooms |-> p.v, threw |-> FALSE]
        ELSE [hit |-> FALSE, rooms |-> EmptyRooms, threw |-> TRUE]

\* try { setRooms(JSON.parse(cachedRooms)); return } catch { fall through }.
\* threw stands for an error that leaves loadRooms uncaught; the try lets
\* none out
CacheParse(payload) ==
    LET p == JsonParse(payload)
    IN  IF p.ok THEN [hit |-> TRUE, rooms |-> p.v, threw |-> FALSE] ELSE CacheMiss

\* CacheRead without the test of forceFetch
CacheReadAlways(forceFetch, st, clock) ==
    IF Truthy(st.rooms) /\ Truthy(st.ts) /\ CacheFresh(clock, ParseInt(st.ts.v))
    THEN CacheParse(st.rooms.v)
    ELSE CacheMiss

\* the cache part of loadRooms: hit with the parsed list, or miss
CacheRead(forceFetch, st, clock) ==
    IF forceFetch THEN CacheMiss
    ELSE IF Truthy(st.rooms) /\ Truthy(st.ts) /\ CacheFresh(clock, ParseInt(st.ts.v))
         THEN CacheParse(st.rooms.v)
         ELSE CacheMiss

\* loadRooms up to its first await.  The "cache expired" status of line 74
\* is overwritten by line 80 before anything can observe it.
LoadRoomsSync(token, forceFetch, st, clock, curRooms, curSelected, curStatus) ==
    IF token = <<>>
    THEN [rooms |-> EmptyRooms, selectedRoomId |-> <<>>, statusMessage |-> Status(MSG_TOKEN_NOT_SET, "error"), fetch |-> FALSE, usedCache |-> FALSE, uncaught |-> FALSE]
    ELSE LET c == CacheRead(forceFetch, st, clock)
         IN  IF c.threw
             THEN [rooms |-> curRooms, selectedRoomId |-> curSelected, statusMessage |-> curStatus, fetch |-> FALSE, usedCache |-> FALSE, uncaught |-> TRUE]
             ELSE IF c.hit
             THEN [rooms |-> c.rooms, selectedRoomId |-> curSelected, statusMessage |-> Status(MSG_CACHE_LOADED, "success"), fetch |-> FALSE, usedCache |-> TRUE, uncaught |-> FALSE]
             ELSE [rooms |-> EmptyRooms, selectedRoomId |-> curSelected, statusMessage |-> Status(MSG_LOADING, ""), fetch |-> TRUE, usedCache |-> FALSE, uncaught |-> FALSE]

\* what a fetch of the page resolves to: rejected, or a status and a body
Rejected == [rejected |-> TRUE, status |-> 0, body |-> <<>>]
Resolved(r) == [rejected |-> FALSE, status |-> r.status, body |-> r.body]
NoResp == [rejected |-> FALSE, status |-> 0, body |-> <<>>]

\* LoadFailed that leaves the status at the loading text
LoadFailedSilent(msg) == [rooms |-> EmptyRooms, statusMessage |-> Status(MSG_LOADING, ""), write |-> FALSE]

\* LoadFailed that writes the cleared list to the cache
LoadFailedWrites(msg) == [rooms |-> EmptyRooms, statusMessage |-> Status(MSG_ROOMS_FAIL_PREFIX \o msg, "error"), write |-> TRUE]

\* the catch block of loadRooms: error status, list cleared, no write
LoadFailed(msg) == [rooms |-> EmptyRooms, statusMessage |-> Status(MSG_ROOMS_FAIL_PREFIX \o msg, "error"), write |-> FALSE]

\* LoadRoomsDone that adopts the returned list and leaves the cache alone
LoadRoomsDoneNoWrite(resp) ==
    IF resp.rejected THEN LoadFailed(MSG_FETCH_REJECTED)
    ELSE LET p == JsonParse(resp.body)
         IN  IF ~p.ok THEN LoadFailed(MSG_JSON_SYNTAX)
             ELSE IF IsOk(resp.status) THEN [rooms |-> p.v, statusMessage |-> Status(MSG_ROOMS_DONE, "success"), write |-> FALSE]
             ELSE LoadFailed(ROOMS_ERR_PREFIX \o NatToStr(resp.status) \o SEP_DASH \o Stringify(p.v))

\* loadRooms after its fetch: both branches read the body with
\* response.json(); write says that the cache is written
LoadRoomsDone(resp) ==
    IF resp.rejected THEN LoadFailed(MSG_FETCH_REJECTED)
    ELSE LET p == JsonParse(resp.body)
         IN  IF ~p.ok THEN LoadFailed(MSG_JSON_SYNTAX)
             ELSE IF IsOk(resp.status) THEN [rooms |-> p.v, statusMessage |-> Status(MSG_ROOMS_DONE, "success"), write |-> TRUE]
             ELSE LoadFailed(ROOMS_ERR_PREFIX \o NatToStr(resp.status) \o SEP_DASH \o Stringify(p.v))

\* SendCheck with the check of the message before the check of the room
SendCheckMessageFirst(token, roomId, message) ==
    IF token = <<>> THEN MSG_TOKEN_NOT_SET
    ELSE IF message = <<>> THEN MSG_MEMO_EMPTY
    ELSE IF roomId = <<>> THEN MSG_SELECT_ROOM
    ELSE <<>>

\* SendCheck without the check of the token
SendCheckNoToken(token, roomId, message) ==
    IF roomId = <<>> THEN MSG_SELECT_ROOM
    ELSE IF message = <<>> THEN MSG_MEMO_EMPTY
    ELSE <<>>

\* the validation of handleSendTask: the message of the first check that
\* fails, <<>> when all pass
SendCheck(token, roomId, message) ==
    IF token = <<>> THEN MSG_TOKEN_NOT_SET
    ELSE IF roomId = <<>> THEN MSG_SELECT_ROOM
    ELSE IF message = <<>> THEN MSG_MEMO_EMPTY
    ELSE <<>>

\* x.toString() of a parsed JSON value; threw: a TypeError on undefined and null
RECURSIVE ToStringJS(_)
RECURSIVE JoinJS(_)
JoinJS(a) == IF a = <<>> THEN <<>> ELSE (IF Head(a).t \in {"null", "undef"} THEN <<>> ELSE ToStringJS(Head(a)).s) \o (IF Len(a) > 1 THEN <<44>> ELSE <<>>) \o JoinJS(Tail(a))

ToStringJS(j) ==
    CASE j.t = "undef" -> [threw |-> TRUE, s |-> MSG_UNDEF_TOSTRING]
      [] j.t = "null" -> [threw |-> TRUE, s |-> MSG_NULL_TOSTRING]
      [] j.t = "num" -> [threw |-> FALSE, s |-> Stringify(j)]
      [] j.t = "bool" -> [threw |-> FALSE, s |-> Stringify(j)]
      [] j.t = "str" -> [threw |-> FALSE, s |-> j.v]
      [] j.t = "arr" -> [threw |-> FALSE, s |-> JoinJS(j.v)]
      [] j.t = "obj" -> [threw |-> FALSE, s |-> STR_OBJECT_OBJECT]

\* DueLimit without the division that turns milliseconds into seconds
DueLimitMs(clock) == clock + WEEK_SECONDS

\* Math.floor(Date.now() / 1000) + 60 * 60 * 24 * 7
DueLimit(clock) == (clock \div 1000) + WEEK_SECONDS

MeFailed(msg) == [failed |-> TRUE, msg |-> msg, to_ids |-> <<>>]

\* MeDone with String(myChatworkId) for myChatworkId.toString(): no
\* TypeError on undefined and null
MeDoneString(resp) ==
    IF resp.rejected THEN MeFailed(MSG_FETCH_REJECTED)
    ELSE LET p == JsonParse(resp.body)
         IN  IF ~p.ok THEN MeFailed(MSG_JSON_SYNTAX)
             ELSE IF ~IsOk(resp.status) THEN MeFailed(ME_ERR_PREFIX \o NatToStr(resp.status) \o SEP_DASH \o Stringify(p.v))
             ELSE IF p.v.t = "null" THEN MeFailed(MSG_NULL_ACCOUNT_ID)
             ELSE LET id == ToStringJS(Prop(p.v, KEY_ACCOUNT_ID))
                  IN  [failed |-> FALSE, msg |-> <<>>, to_ids |-> IF id.threw THEN <<117, 110, 100, 101, 102, 105, 110, 101, 100>> ELSE id.s]

\* handleSendTask between the answer of /me and the task-creation fetch:
\* failed with the message of the error thrown, or the assignee as a string
MeDone(resp) ==
    IF resp.rejected THEN MeFailed(MSG_FETCH_REJECTED)
    ELSE LET p == JsonParse(resp.body)
         IN  IF ~p.ok THEN MeFailed(MSG_JSON_SYNTAX)
             ELSE IF ~IsOk(resp.status) THEN MeFailed(ME_ERR_PREFIX \o NatToStr(resp.status) \o SEP_DASH \o Stringify(p.v))
             ELSE IF p.v.t = "null" THEN MeFailed(MSG_NULL_ACCOUNT_ID)
             ELSE LET id == ToStringJS(Prop(p.v, KEY_ACCOUNT_ID))
                  IN  IF id.threw THEN MeFailed(id.s) ELSE [failed |-> FALSE, msg |-> <<>>, to_ids |-> id.s]

\* TaskDone that takes every answer of the task-creation fetch for a success
TaskDoneAnyStatus(resp) ==
    IF resp.rejected THEN [failed |-> TRUE, msg |-> MSG_FETCH_REJECTED]
    ELSE [failed |-> FALSE, msg |-> <<>>]

\* handleSendTask after the task-creation fetch: the body is read only on
\* a status that is not 2xx
TaskDone(resp) ==
    IF resp.rejected THEN [failed |-> TRUE, msg |-> MSG_FETCH_REJECTED]
    ELSE IF IsOk(resp.status) THEN [failed |-> FALSE, msg |-> <<>>]
    ELSE LET p == JsonParse(resp.body)
         IN  IF ~p.ok THEN [failed |-> TRUE, msg |-> MSG_JSON_SYNTAX]
             ELSE [failed |-> TRUE, msg |-> TASK_ERR_PREFIX \o NatToStr(resp.status) \o SEP_DASH \o Stringify(p.v)]

\* TruncateError that keeps 100 characters before the ellipsis
TruncateError100(errorMessage) == IF Len(errorMessage) > 100 THEN Substring0(errorMessage, 100) \o ELLIPSIS ELSE errorMessage

\* if (errorMessage.length > 100) errorMessage = errorMessage.substring(0, 97) + '...'
TruncateError(errorMessage) == IF Len(errorMessage) > 100 THEN Substring0(errorMessage, 97) \o ELLIPSIS ELSE errorMessage

\* the values of the options that the room select renders
RoomOptions(rs) == {<<>>} \cup (IF rs.t = "arr" THEN {ToStringJS(Prop(rs.v[k], KEY_ROOM_ID)).s : k \in 1..Len(rs.v)} ELSE {})

(***************************************************************************)
(* The environment: what the user types, what the upstream API answers,    *)
(* what localStorage holds when the page is opened                         *)
(***************************************************************************)
\* what the user leaves in the token input: "", " b"
TokenInputs == {<<>>, <<32, 98>>}

\* what the user leaves in the textarea: " ", "m "
MemoInputs == {<<32>>, <<109, 32>>}

\* the values Date.now() returns, in order: 0, 1, the millisecond a cache
\* written at 0 expires, and every millisecond after
Instant(k) == IF k <= 1 THEN k ELSE CACHE_DURATION_MS + k - 2

RoomsUpstream == {UpResp(200, Stringify(RoomsB)), UpResp(401, Stringify(UpstreamError))}

MeUpstream == {UpResp(200, Stringify(MeBody)), UpResp(200, Stringify(JObj(<<>>))), UpResp(401, Stringify(UpstreamError))}

TaskUpstream == {UpResp(200, Stringify(TaskBody)), UpResp(503, Filler(19))}

\* the cache items a former visit may have left: none, a list written at
\* time 0, an unparsable payload, a timestamp that is not a number
InitCache == {<<Absent, Absent>>, <<Present(Stringify(RoomsA)), Present(<<48>>)>>, <<Present(CorruptPayload), Present(<<48>>)>>, <<Present(Stringify(RoomsA)), Present(<<120>>)>>}

\* localStorage when the page is opened: nothing, or the token "a" of a
\* former visit with one of these caches.  fetchedWith is no item of
\* localStorage: it keeps the credential of the fetch whose answer the item
\* rooms holds, here the token of the former visit
InitStorage ==
    {[token |-> Absent, rooms |-> Absent, ts |-> Absent, fetchedWith |-> Absent]}
        \cup {[token |-> Present(<<97>>), rooms |-> c[1], ts |-> c[2], fetchedWith |-> IF c[1].present THEN Present(<<97>>) ELSE Absent] : c \in InitCache}

(***************************************************************************)
(* State                                                                   *)
(***************************************************************************)
VARIABLES
    now,            \* what Date.now() returned last
    ticks,          \* the index of that value: now = Instant(ticks)
    clicks,         \* number of clicks and reloads so far
    storage,        \* localStorage: the items token, rooms, ts (and fetchedWith)
    mounted,        \* the effect of the first render has run
    apiToken,       \* useState: the token input
    rooms,          \* useState: the room list
    selectedRoomId, \* useState: the value of the room select
    memoContent,    \* useState: the task text
    statusMessage,  \* useState: [text, type]
    pending,        \* the handler runs that wait for a fetch, oldest first
    last,           \* the handler run that ended most recently
    px              \* the last exchange of a route handler called directly

vars == <<now, ticks, clicks, storage, mounted, apiToken, rooms, selectedRoomId, memoContent, statusMessage, pending, last, px>>

NoForm == [bad |-> FALSE, body |-> Absent, to_ids |-> Absent, limit |-> Absent]

\* one request to a route handler, what the upstream API did and the reply
Exchange(ep, token, roomId, form, up, resp) == [ep |-> ep, token |-> token, roomId |-> roomId, form |-> form, up |-> up, resp |-> resp]

NoExchange == Exchange("none", Absent, <<>>, NoForm, UpErr, Reply(0, JNull, FALSE, NoFields))

\* a fetch of the page; at: what Date.now() returned when the form of a
\* task-creation request was built (0 for the two GET requests, which
\* carry no time)
Call(ep, token, roomId, form, at) == [ep |-> ep, token |-> token, roomId |-> roomId, form |-> form, at |-> at, answered |-> FALSE, resp |-> NoResp]

\* the kind of a status: "success", "error" or "neutral"
KindOf(status) == IF status.type = "" THEN "neutral" ELSE status.type

\* one run of a handler.  pc: where it waits (awaitRooms, awaitMe,
\* awaitTask) or done.  calls: the fetches it has issued.  full: the error
\* message of a failed submission before it is cut.  result: the kind of the
\* last status the run has set.  overtaken: a load that started after this
\* one has ended while this one waited for its fetch.
Invocation(kind, token, forceFetch, roomId, message, pc, calls, usedCache, uncaught, result) ==
    [kind |-> kind, token |-> token, forceFetch |-> forceFetch, roomId |-> roomId, message |-> message, pc |-> pc,
     calls |-> calls, usedCache |-> usedCache, uncaught |-> uncaught, full |-> <<>>, result |-> result, overtaken |-> FALSE]

NoInvocation == Invocation("none", <<>>, FALSE, <<>>, <<>>, "done", <<>>, FALSE, FALSE, "neutral")

Init ==
    /\ now = 0
    /\ ticks = 0
    /\ clicks = 0
    /\ storage \in InitStorage
    /\ mounted = FALSE
    /\ apiToken = <<>>
    /\ rooms = EmptyRooms
    /\ selectedRoomId = <<>>
    /\ memoContent = <<>>
    /\ statusMessage = Status(<<>>, "")
    /\ pending = <<>>
    /\ last = NoInvocation
    /\ px = NoExchange

\* the run inv starts: it waits for its fetch, or it has ended already
Started(inv) ==
    IF inv.pc = "done"
    THEN last' = inv /\ UNCHANGED pending
    ELSE pending' = Append(pending, inv) /\ UNCHANGED last

\* the runs that started before the run inv, once inv has ended: the end of
\* a load overtakes the loads among them
Overtaken(earlier, inv) ==
    [k \in 1..Len(earlier) |-> IF inv.pc = "awaitRooms" /\ earlier[k].pc = "awaitRooms" THEN [earlier[k] EXCEPT !.overtaken = TRUE] ELSE earlier[k]]

\* the pending run i goes on as inv
Continued(i, inv) ==
    IF inv.pc = "done"
    THEN last' = inv /\ pending' = Overtaken(SubSeq(pending, 1, i - 1), pending[i]) \o SubSeq(pending, i + 1, Len(pending))
    ELSE pending' = [pending EXCEPT ![i] = inv] /\ UNCHANGED last

(***************************************************************************)
(* The handlers of the page                                                *)
(***************************************************************************)
\* the values a call of Date.now() may return: the value returned last,
\* or a later one; a step that does not call it leaves the clock alone
DateNow(called) == IF called THEN ticks..MaxTicks ELSE {ticks}

\* loadRooms calls Date.now() at line 59 only
ReadsClock(token, forceFetch, st) == token # <<>> /\ ~forceFetch /\ Truthy(st.rooms) /\ Truthy(st.ts)

\* StartLoad that passes forceFetch = false whatever the handler asks for
StartLoadUnforced(kind, token, forceFetch, st) ==
    \E k \in DateNow(ReadsClock(token, FALSE, st)) :
        /\ ticks' = k
        /\ now' = Instant(k)
        /\ LET L == LoadRoomsSync(token, FALSE, st, Instant(k), rooms, selectedRoomId, statusMessage)
               calls == IF L.fetch THEN <<Call("rooms", token, <<>>, NoFields, 0)>> ELSE <<>>
               result == IF L.uncaught THEN "uncaught" ELSE KindOf(L.statusMessage)
           IN  /\ rooms' = L.rooms
               /\ selectedRoomId' = L.selectedRoomId
               /\ statusMessage' = L.statusMessage
               /\ Started(Invocation(kind, token, forceFetch, <<>>, <<>>, IF L.fetch THEN "awaitRooms" ELSE "done", calls, L.usedCache, L.uncaught, result))

\* a call of loadRooms(token, forceFetch) by the handler kind, with st the
\* content of localStorage at that moment
StartLoad(kind, token, forceFetch, st) ==
    \E k \in DateNow(ReadsClock(token, forceFetch, st)) :
        /\ ticks' = k
        /\ now' = Instant(k)
        /\ LET L == LoadRoomsSync(token, forceFetch, st, Instant(k), rooms, selectedRoomId, statusMessage)
               calls == IF L.fetch THEN <<Call("rooms", token, <<>>, NoFields, 0)>> ELSE <<>>
               result == IF L.uncaught THEN "uncaught" ELSE KindOf(L.statusMessage)
           IN  /\ rooms' = L.rooms
               /\ selectedRoomId' = L.selectedRoomId
               /\ statusMessage' = L.statusMessage
               /\ Started(Invocation(kind, token, forceFetch, <<>>, <<>>, IF L.fetch THEN "awaitRooms" ELSE "done", calls, L.usedCache, L.uncaught, result))

\* a handler that ends at a check, with that status
EndAtCheck(kind, token, status) ==
    /\ statusMessage' = status
    /\ UNCHANGED <<now, ticks>>
    /\ Started(Invocation(kind, token, FALSE, <<>>, <<>>, "done", <<>>, FALSE, FALSE, KindOf(status)))

\* useEffect(() => {...}, [])
Mount ==
    /\ ~mounted
    /\ mounted' = TRUE
    /\ IF Truthy(storage.token)
       THEN /\ apiToken' = storage.token.v
            /\ StartLoad("mount", storage.token.v, FALSE, storage)
       ELSE /\ EndAtCheck("mount", <<>>, Status(MSG_ENTER_TOKEN_PROMPT, ""))
            /\ rooms' = EmptyRooms
            /\ UNCHANGED <<apiToken, selectedRoomId>>
    /\ UNCHANGED <<clicks, storage, memoContent, px>>

\* handleSaveToken, with apiToken as the token input holds it at the click
\* (onChange of the input, line 256, has set it since the last click)
handleSaveToken ==
    /\ mounted
    /\ clicks < MaxClicks
    /\ Len(pending) < MaxPending
    /\ clicks' = clicks + 1
    /\ \E typed \in TokenInputs \cup {apiToken} :
        /\ apiToken' = typed
        /\ LET newToken == Trim(typed)
           IN  IF newToken = <<>>
               THEN /\ EndAtCheck("save", <<>>, Status(MSG_ENTER_TOKEN, "error"))
                    /\ UNCHANGED <<storage, rooms, selectedRoomId>>
               ELSE /\ storage' = [storage EXCEPT !.token = Present(newToken)]
                    /\ StartLoad("save", newToken, TRUE, storage')
    /\ UNCHANGED <<mounted, memoContent, px>>

handleRefreshRooms ==
    /\ mounted
    /\ clicks < MaxClicks
    /\ Len(pending) < MaxPending
    /\ clicks' = clicks + 1
    /\ IF ~Truthy(storage.token)
       THEN /\ EndAtCheck("refresh", <<>>, Status(MSG_SAVE_FIRST, "error"))
            /\ UNCHANGED <<rooms, selectedRoomId>>
       ELSE StartLoad("refresh", storage.token.v, TRUE, storage)
    /\ UNCHANGED <<storage, mounted, apiToken, memoContent, px>>

\* handleSendTask behind a guard that lets one submission wait at a time
handleSendTaskOnce ==
    /\ mounted
    /\ \A i \in 1..Len(pending) : pending[i].kind # "send"
    /\ clicks < MaxClicks
    /\ Len(pending) < MaxPending
    /\ clicks' = clicks + 1
    /\ \E memo \in MemoInputs \cup {memoContent}, roomId \in RoomOptions(rooms) \cup {selectedRoomId} :
        /\ memoContent' = memo
        /\ selectedRoomId' = roomId
        /\ LET token == apiToken
               message == Trim(memo)
               failure == SendCheck(token, roomId, message)
           IN  IF failure # <<>>
               THEN /\ statusMessage' = Status(failure, "error")
                    /\ Started(Invocation("send", token, FALSE, roomId, message, "done", <<>>, FALSE, FALSE, "error"))
               ELSE /\ statusMessage' = Status(MSG_SENDING, "")
                    /\ Started(Invocation("send", token, FALSE, roomId, message, "awaitMe", <<Call("me", token, <<>>, NoFields, 0)>>, FALSE, FALSE, "neutral"))
    /\ UNCHANGED <<now, ticks, storage, mounted, apiToken, rooms, px>>

\* handleSendTask up to its first await, with selectedRoomId and memoContent
\* as the room select and the textarea hold them at the click (their
\* onChange, lines 285 and 316, has set them since the last click; the
\* select offers the options it renders)
handleSendTask ==
    /\ mounted
    /\ clicks < MaxClicks
    /\ Len(pending) < MaxPending
    /\ clicks' = clicks + 1
    /\ \E memo \in MemoInputs \cup {memoContent}, roomId \in RoomOptions(rooms) \cup {selectedRoomId} :
        /\ memoContent' = memo
        /\ selectedRoomId' = roomId
        /\ LET token == apiToken
               message == Trim(memo)
               failure == SendCheck(token, roomId, message)
           IN  IF failure # <<>>
               THEN /\ statusMessage' = Status(failure, "error")
                    /\ Started(Invocation("send", token, FALSE, roomId, message, "done", <<>>, FALSE, FALSE, "error"))
               ELSE /\ statusMessage' = Status(MSG_SENDING, "")
                    /\ Started(Invocation("send", token, FALSE, roomId, message, "awaitMe", <<Call("me", token, <<>>, NoFields, 0)>>, FALSE, FALSE, "neutral"))
    /\ UNCHANGED <<now, ticks, storage, mounted, apiToken, rooms, px>>

\* the pending run i with the answer resp to its last call
Answered(i, resp) == [pending[i] EXCEPT !.calls[Len(pending[i].calls)].answered = TRUE, !.calls[Len(pending[i].calls)].resp = resp]

\* RoomsResponse that drops the answer to a load that a later load has
\* overtaken
RoomsResponseLatestOnly(i, resp) ==
    /\ pending[i].pc = "awaitRooms"
    /\ LET D == LoadRoomsDone(resp)
       IN  IF pending[i].overtaken
           THEN /\ UNCHANGED <<rooms, statusMessage, now, ticks, storage>>
                /\ Continued(i, [Answered(i, resp) EXCEPT !.pc = "done", !.result = KindOf(D.statusMessage)])
           ELSE /\ rooms' = D.rooms
                /\ statusMessage' = D.statusMessage
                /\ \E k \in DateNow(D.write) :
                     /\ ticks' = k
                     /\ now' = Instant(k)
                     /\ storage' = IF D.write THEN [storage EXCEPT !.rooms = Present(Stringify(D.rooms)), !.ts = Present(NatToStr(Instant(k))), !.fetchedWith = Present(pending[i].token)] ELSE storage
                /\ Continued(i, [Answered(i, resp) EXCEPT !.pc = "done", !.result = KindOf(D.statusMessage)])
    /\ UNCHANGED <<clicks, mounted, apiToken, selectedRoomId, memoContent, px>>

\* loadRooms from the answer of its fetch to its end
RoomsResponse(i, resp) ==
    /\ pending[i].pc = "awaitRooms"
    /\ LET D == LoadRoomsDone(resp)
       IN  /\ rooms' = D.rooms
           /\ statusMessage' = D.statusMessage
           /\ \E k \in DateNow(D.write) :
                /\ ticks' = k
                /\ now' = Instant(k)
                /\ storage' = IF D.write THEN [storage EXCEPT !.rooms = Present(Stringify(D.rooms)), !.ts = Present(NatToStr(Instant(k))), !.fetchedWith = Present(pending[i].token)] ELSE storage
           /\ Continued(i, [Answered(i, resp) EXCEPT !.pc = "done", !.result = KindOf(D.statusMessage)])
    /\ UNCHANGED <<clicks, mounted, apiToken, selectedRoomId, memoContent, px>>

\* the catch block of handleSendTask, for the error message msg
SendFailed(i, resp, msg) ==
    LET errorMessage == SEND_FAIL_PREFIX \o msg
    IN  /\ statusMessage' = Status(TruncateError(errorMessage), "error")
        /\ Continued(i, [Answered(i, resp) EXCEPT !.pc = "done", !.result = "error", !.full = errorMessage])
        /\ UNCHANGED memoContent

\* the fields of the task-creation request built at the clock value clock
TaskForm(message, to_ids, clock) == [body |-> message, to_ids |-> to_ids, limit |-> NatToStr(DueLimit(clock))]

\* MeResponse that issues the identity call again when it has failed
MeResponseRetries(i, resp) ==
    /\ pending[i].pc = "awaitMe"
    /\ LET D == MeDone(resp)
       IN  IF D.failed
           THEN /\ Continued(i, [Answered(i, resp) EXCEPT !.calls = Append(@, Call("me", pending[i].token, <<>>, NoFields, 0))])
                /\ UNCHANGED <<now, ticks, statusMessage, memoContent>>
           ELSE \E k \in DateNow(TRUE) :
                    /\ ticks' = k
                    /\ now' = Instant(k)
                    /\ Continued(i, [Answered(i, resp) EXCEPT !.pc = "awaitTask", !.calls = Append(@, Call("tasks", pending[i].token, pending[i].roomId, TaskForm(pending[i].message, D.to_ids, Instant(k)), Instant(k)))])
                    /\ UNCHANGED <<statusMessage, memoContent>>
    /\ UNCHANGED <<clicks, storage, mounted, apiToken, rooms, selectedRoomId, px>>

\* handleSendTask from the answer of /me to the task-creation fetch
MeResponse(i, resp) ==
    /\ pending[i].pc = "awaitMe"
    /\ LET D == MeDone(resp)
       IN  IF D.failed
           THEN SendFailed(i, resp, D.msg) /\ UNCHANGED <<now, ticks>>
           ELSE \E k \in DateNow(TRUE) :
                    /\ ticks' = k
                    /\ now' = Instant(k)
                    /\ Continued(i, [Answered(i, resp) EXCEPT !.pc = "awaitTask", !.calls = Append(@, Call("tasks", pending[i].token, pending[i].roomId, TaskForm(pending[i].message, D.to_ids, Instant(k)), Instant(k)))])
                    /\ UNCHANGED <<statusMessage, memoContent>>
    /\ UNCHANGED <<clicks, storage, mounted, apiToken, rooms, selectedRoomId, px>>

\* handleSendTask from the answer of the task-creation fetch to its end
TaskResponse(i, resp) ==
    /\ pending[i].pc = "awaitTask"
    /\ LET D == TaskDone(resp)
       IN  IF D.failed
           THEN SendFailed(i, resp, D.msg)
           ELSE /\ statusMessage' = Status(MSG_SENT, "success")
                /\ memoContent' = <<>>
                /\ Continued(i, [Answered(i, resp) EXCEPT !.pc = "done", !.result = "success"])
    /\ UNCHANGED <<now, ticks, clicks, storage, mounted, apiToken, rooms, selectedRoomId, px>>

(***************************************************************************)
(* The network between the page and the upstream API                       *)
(***************************************************************************)
FormOf(f) == [bad |-> FALSE, body |-> Present(f.body), to_ids |-> Present(f.to_ids), limit |-> Present(f.limit)]

\* the fetch of the room list does not reach the route handler
RoomsRejected == \E i \in 1..Len(pending) : RoomsResponse(i, Rejected)

\* the route handler answers the fetch of the room list
RoomsAnswered == \E i \in 1..Len(pending), up \in RoomsUpstream : RoomsResponse(i, Resolved(RoomsGET(HeaderValue(pending[i].token), up)))

MeRejected == \E i \in 1..Len(pending) : MeResponse(i, Rejected)

MeAnswered == \E i \in 1..Len(pending), up \in MeUpstream : MeResponse(i, Resolved(MeGET(HeaderValue(pending[i].token), up)))

TaskRejected == \E i \in 1..Len(pending) : TaskResponse(i, Rejected)

TaskAnswered ==
    \E i \in 1..Len(pending), up \in TaskUpstream :
        LET c == pending[i].calls[Len(pending[i].calls)]
        IN  TaskResponse(i, Resolved(TasksPOST(c.roomId, HeaderValue(c.token), FormOf(c.form), up)))

(***************************************************************************)
(* The reload of the page                                                  *)
(***************************************************************************)
\* the page is loaded again: the state of the component starts over,
\* localStorage stays, the runs of the old page never resume
Reload ==
    /\ mounted
    /\ clicks < MaxClicks
    /\ clicks' = clicks + 1
    /\ mounted' = FALSE
    /\ apiToken' = <<>>
    /\ rooms' = EmptyRooms
    /\ selectedRoomId' = <<>>
    /\ memoContent' = <<>>
    /\ statusMessage' = Status(<<>>, "")
    /\ pending' = <<>>
    /\ UNCHANGED <<now, ticks, storage, last, px>>

Next ==
    \/ Mount
    \/ handleSaveToken
    \/ handleRefreshRooms
    \/ handleSendTask
    \/ RoomsRejected
    \/ RoomsAnswered
    \/ MeRejected
    \/ MeAnswered
    \/ TaskRejected
    \/ TaskAnswered
    \/ Reload

Spec == Init /\ [][Next]_vars

\* while a fetch is under way, some fetch is answered or rejected in the
\* end: the browser settles the promise of a fetch whose call returns, and
\* a settled promise resumes the handler that awaits it
SpecLive == Spec /\ WF_vars(RoomsRejected \/ RoomsAnswered \/ MeRejected \/ MeAnswered \/ TaskRejected \/ TaskAnswered)

(***************************************************************************)
(* The route handlers called directly, with any request.  A handler keeps  *)
(* no state from one request to the next, so a behaviour holds one request.*)
(***************************************************************************)
\* the X-ChatWorkToken header: missing, empty, "a"
ProxyTokens == {Absent, Present(<<>>), Present(<<97>>)}

\* the [roomId] segment of the path: "" and "1"
ProxyRoomIds == {<<>>, <<49>>}

\* a form field: missing, "", " ", "x"
ProxyFields == {Absent, Present(<<>>), Present(<<32>>), Present(<<120>>)}

\* request bodies: a body that formData() rejects, and every form of the fields
ProxyForms == [bad : {FALSE}, body : ProxyFields, to_ids : ProxyFields, limit : ProxyFields] \cup {[bad |-> TRUE, body |-> Absent, to_ids |-> Absent, limit |-> Absent]}

\* what the upstream API answers: no answer, JSON with a 2xx status, JSON
\* with an error status, and bodies that are not JSON, among them the empty
\* body and bodies around the 200 characters of the excerpt
ProxyUpstream ==
    {UpErr, UpResp(200, Stringify(RoomsA)), UpResp(200, Stringify(MeBody)), UpResp(401, Stringify(UpstreamError)),
     UpResp(200, <<>>), UpResp(503, Filler(19)), UpResp(500, Filler(200)), UpResp(503, Filler(MaxTextLen))}

ProxyRooms ==
    /\ px.ep = "none"
    /\ \E token \in ProxyTokens, up \in ProxyUpstream : px' = Exchange("rooms", token, <<>>, NoForm, up, RoomsGET(token, up))
    /\ UNCHANGED <<now, ticks, clicks, storage, mounted, apiToken, rooms, selectedRoomId, memoContent, statusMessage, pending, last>>

ProxyMe ==
    /\ px.ep = "none"
    /\ \E token \in ProxyTokens, up \in ProxyUpstream : px' = Exchange("me", token, <<>>, NoForm, up, MeGET(token, up))
    /\ UNCHANGED <<now, ticks, clicks, storage, mounted, apiToken, rooms, selectedRoomId, memoContent, statusMessage, pending, last>>

ProxyTasks ==
    /\ px.ep = "none"
    /\ \E token \in ProxyTokens, roomId \in ProxyRoomIds, form \in ProxyForms, up \in ProxyUpstream :
        px' = Exchange("tasks", token, roomId, form, up, TasksPOST(roomId, token, form, up))
    /\ UNCHANGED <<now, ticks, clicks, storage, mounted, apiToken, rooms, selectedRoomId, memoContent, statusMessage, pending, last>>

NextProxy ==
    \/ ProxyRooms
    \/ ProxyMe
    \/ ProxyTasks

SpecProxy == Init /\ [][NextProxy]_vars

(***************************************************************************)
(* Properties                                                              *)
(***************************************************************************)
\* the handler runs the state knows: those that wait, and the last one ended
Runs == {pending[i] : i \in 1..Len(pending)} \cup {last}

\* the calls of the run r to the endpoint ep
CallsTo(r, ep) == {k \in 1..Len(r.calls) : r.calls[k].ep = ep}

\* this step is the effect of the first render calling loadRooms(token, false)
MountLoads == ~mounted /\ mounted' /\ Truthy(storage.token)

\* this step ends a load that has adopted the cached list, with no fetch
AdoptsCache == pending' = pending /\ last'.kind = "mount" /\ last'.usedCache /\ last'.calls = <<>>

\* this step starts a run that waits for exactly one fetch of the room list
StartsRoomsFetch ==
    /\ Len(pending') = Len(pending) + 1
    /\ Len(pending'[Len(pending')].calls) = 1
    /\ pending'[Len(pending')].calls[1].ep = "rooms"
    /\ pending'[Len(pending')].pc = "awaitRooms"

\* C1 as stated: with a cached payload and a stored timestamp t, a load with
\* forceFetch = false adopts the cache without a network call if and only
\* if now - t < 86400000, and fetches the room list otherwise
C1_FreshIffCacheUsed ==
    [][(MountLoads /\ storage.rooms.present /\ storage.ts.present /\ ~ParseInt(storage.ts.v).nan)
        => /\ AdoptsCache <=> (now' - ParseInt(storage.ts.v).n < 86400000)
           /\ ~AdoptsCache => StartsRoomsFetch]_vars

\* the cache items are both there and not empty, the payload is JSON, the
\* timestamp is a number t and clock - t < 86400000
CacheUsableAt(clock) ==
    /\ Truthy(storage.rooms)
    /\ Truthy(storage.ts)
    /\ JsonParse(storage.rooms.v).ok
    /\ ~ParseInt(storage.ts.v).nan
    /\ clock - ParseInt(storage.ts.v).n < 86400000

\* C1 amended: a load with forceFetch = false and a non-empty token adopts
\* the cached list without a network call if and only if payload and
\* timestamp are both stored and not empty, the payload parses as JSON and
\* now - t < 86400000; in every other case it fetches the room list
C1_CacheUsedIffUsable ==
    [][MountLoads
        => /\ AdoptsCache <=> CacheUsableAt(now')
           /\ AdoptsCache => rooms' = JsonParse(storage.rooms.v).v
           /\ ~AdoptsCache => StartsRoomsFetch]_vars

\* a load at the first render has adopted the list cached at time 0
C1_Witness == last.kind = "mount" /\ last.usedCache /\ rooms = RoomsA /\ storage.ts = Present(<<48>>) /\ pending = <<>>

\* C2: loadRooms(token, true) with a non-empty token issues exactly one call
\* to the room-list endpoint and never adopts the cached list
C2_ForceFetchAlwaysFetches ==
    \A r \in Runs : (r.forceFetch /\ r.token # <<>>)
        => /\ Len(r.calls) = 1
           /\ r.calls[1].ep = "rooms"
           /\ ~r.usedCache

\* a forced load waits for its fetch while the cache is fresh and parsable
C2_Witness == \E i \in 1..Len(pending) : pending[i].forceFetch /\ pending[i].kind = "refresh" /\ CacheUsableAt(now)

\* the outcome of loadRooms(token, false) when there is no cache: the list
\* is cleared, the status says loading, one fetch of the room list is under
\* way, nothing is thrown and localStorage is as before
LoadsAsWithoutCache ==
    /\ StartsRoomsFetch
    /\ ~pending'[Len(pending')].uncaught
    /\ ~pending'[Len(pending')].usedCache
    /\ last' = last
    /\ rooms' = EmptyRooms
    /\ statusMessage' = Status(MSG_LOADING, "")
    /\ storage' = storage

\* C3: with a cached payload that is not JSON, loadRooms(token, false) throws
\* nothing and does what it does when the cache is absent
C3_CorruptCacheAsAbsent ==
    [][(MountLoads /\ (~storage.rooms.present \/ ~JsonParse(storage.rooms.v).ok)) => LoadsAsWithoutCache]_vars

\* a load at the first render waits for its fetch, the payload in the cache
\* is not JSON and its timestamp is fresh
C3_Witness ==
    /\ Len(pending) = 1
    /\ pending[1].kind = "mount"
    /\ pending[1].pc = "awaitRooms"
    /\ storage.rooms = Present(CorruptPayload)
    /\ storage.ts = Present(<<48>>)
    /\ now = 0

\* C4: no call is ever issued with an empty credential; a run whose
\* credential is empty or absent has issued no call and has ended with an
\* error status, or with the neutral prompt at startup
C4_NoCallWithoutCredential ==
    \A r \in Runs :
        /\ \A k \in 1..Len(r.calls) : r.calls[k].token # <<>>
        /\ (r.kind # "none" /\ r.token = <<>>)
            => /\ r.calls = <<>>
               /\ r.pc = "done"
               /\ r.result = IF r.kind = "mount" THEN "neutral" ELSE "error"

\* a submission with an empty token input has ended with an error while a
\* room was selected and the memo was not empty
C4_Witness == last.kind = "send" /\ last.token = <<>> /\ last.roomId # <<>> /\ last.message # <<>> /\ last.result = "error" /\ last.calls = <<>>

\* the answer resp of the identity lookup resolves an assignee: it arrived,
\* its status is 2xx and its body is JSON with an account_id that is
\* neither missing nor null
ResolvesAssignee(c) ==
    /\ c.answered
    /\ ~c.resp.rejected
    /\ c.resp.status \in 200..299
    /\ JsonParse(c.resp.body).ok
    /\ Prop(JsonParse(c.resp.body).v, KEY_ACCOUNT_ID).t \notin {"undef", "null"}

\* C5: in a submission the identity lookup is issued and answered before the
\* task-creation call is issued; when the lookup fails, no task-creation call
\* is issued and the submission ends with an error status
C5_IdentityBeforeTask ==
    \A r \in Runs : r.kind = "send"
        => /\ \A k \in CallsTo(r, "tasks") : k = 2 /\ r.calls[1].ep = "me" /\ ResolvesAssignee(r.calls[1])
           /\ (r.calls # <<>> /\ r.calls[1].answered /\ ~ResolvesAssignee(r.calls[1]))
               => CallsTo(r, "tasks") = {} /\ r.pc = "done" /\ r.result = "error"

\* a submission has ended with an error after an identity answer with
\* status 200 and no account_id, with no task-creation call
C5_Witness ==
    /\ last.kind = "send"
    /\ Len(last.calls) = 1
    /\ last.calls[1].answered
    /\ last.calls[1].resp.status = 200
    /\ ~ResolvesAssignee(last.calls[1])
    /\ last.result = "error"

\* the excerpt of at most 200 characters of text, with the ellipsis marker
\* when text is longer
Capped(text) == IF Len(text) > 200 THEN SubSeq(text, 1, 200) \o <<46, 46, 46>> ELSE text

\* the route handler of px has got an upstream answer whose body is not JSON
UpstreamNotJson == px.ep # "none" /\ px.resp.called /\ ~px.up.err /\ ~JsonParse(px.up.text).ok

\* C6: on an upstream body that is not JSON, each route handler answers with
\* the upstream status and an error object whose details are the body capped
\* at 200 characters plus the ellipsis marker
C6_NonJsonRelayedCapped ==
    UpstreamNotJson
        => /\ px.resp.status = px.up.status
           /\ JsonParse(px.resp.body).ok
           /\ Prop(JsonParse(px.resp.body).v, KEY_ERROR).t = "str"
           /\ Prop(JsonParse(px.resp.body).v, KEY_DETAILS) = JStr(Capped(px.up.text))

\* C7: on an upstream body that is JSON, each route handler answers with the
\* upstream status and the parsed body, for 2xx and for error statuses alike
C7_JsonPassedThrough ==
    (px.ep # "none" /\ px.resp.called /\ ~px.up.err /\ JsonParse(px.up.text).ok)
        => /\ px.resp.status = px.up.status
           /\ JsonParse(px.resp.body) = JsonParse(px.up.text)

\* the request of px to the task-creation handler fails a check when empty
\* means: missing, or empty once blank(f) is taken off
FailsCheck(blank(_)) ==
    \/ ~px.token.present \/ px.token.v = <<>>
    \/ px.roomId = <<>>
    \/ px.form.bad
    \/ \E f \in {px.form.body, px.form.to_ids, px.form.limit} : ~f.present \/ blank(f.v) = <<>>

Untrimmed(s) == s

\* C8 as stated: the task-creation handler issues no upstream call and
\* answers 4xx when the token, the room identifier or one of body, to_ids,
\* limit is missing or empty after trimming; it issues the call only when
\* all checks pass
C8_RejectsBlankAfterTrim ==
    px.ep = "tasks"
        => /\ FailsCheck(Trim) => (~px.resp.called /\ px.resp.status \in 400..499)
           /\ px.resp.called => ~FailsCheck(Trim)

\* C8 amended: the same with empty meaning the empty string; a field of
\* white space only passes the check, the handler does not trim
C8_RejectsMissingOrEmpty ==
    px.ep = "tasks"
        => /\ FailsCheck(Untrimmed) => (~px.resp.called /\ px.resp.status \in 400..499)
           /\ ~FailsCheck(Untrimmed) => (px.resp.called /\ px.resp.sent = [body |-> px.form.body.v, to_ids |-> px.form.to_ids.v, limit |-> px.form.limit.v])

\* the handler has refused a request whose only fault is an empty limit
C8_Witness ==
    /\ px.ep = "tasks"
    /\ Truthy(px.token) /\ px.roomId # <<>>
    /\ px.form.body = Present(<<32>>) /\ px.form.to_ids = Present(<<120>>) /\ px.form.limit = Present(<<>>)
    /\ ~px.resp.called
    /\ px.resp.status = 400

\* this step ends a submission with an error
SendEndsInError == last' # last /\ last'.kind = "send" /\ last'.result = "error"

\* C9: the status text of a failed submission has at most 100 characters: a
\* message of more than 100 is its first 97 characters and "...", a
\* message of 100 or fewer is shown as it is
C9_ErrorTextAtMost100 ==
    [][SendEndsInError
        => /\ Len(statusMessage'.text) <= 100
           /\ statusMessage'.type = "error"
           /\ last'.full # <<>>
               => statusMessage'.text = IF Len(last'.full) > 100 THEN SubSeq(last'.full, 1, 97) \o <<46, 46, 46>> ELSE last'.full]_vars

\* a submission has failed with a message of more than 100 characters, and
\* the status shows 100
C9_Witness == last.kind = "send" /\ Len(last.full) > 100 /\ Len(statusMessage.text) = 100 /\ statusMessage.type = "error"

\* the task-creation calls the state knows
TaskCalls == UNION {{r.calls[k] : k \in CallsTo(r, "tasks")} : r \in Runs}

\* the limit field of every task-creation call is floor(now / 1000) + 604800
\* for the clock at which its request was built
LimitIsNowPlusWeek == \A c \in TaskCalls : c.form.limit = NatToStr((c.at \div 1000) + 604800)

\* C10 as stated: the limit is floor(now / 1000) + 604800, and two
\* submissions at different times compute different values
C10_LimitDiffersWithTime ==
    /\ LimitIsNowPlusWeek
    /\ \A c, d \in TaskCalls : c.at # d.at => c.form.limit # d.form.limit

\* C10 amended: the limit is floor(now / 1000) + 604800 for the clock at the
\* moment the submission builds its request; two submissions get different
\* values exactly when their clocks fall in different seconds
C10_LimitDiffersWithSecond ==
    /\ LimitIsNowPlusWeek
    /\ \A c, d \in TaskCalls : (c.at \div 1000 # d.at \div 1000) <=> c.form.limit # d.form.limit

\* two task-creation calls built in different seconds, with different limits
C10_Witness == \E c, d \in TaskCalls : c.at \div 1000 # d.at \div 1000 /\ c.form.limit # d.form.limit

\* this step ends a pending run (a reload ends none: it abandons them)
RunEnds == mounted' = mounted /\ Len(pending') = Len(pending) - 1

\* the answer of a fetch is a failure: a transport error or a status that
\* is not 2xx
FetchFailed(c) == c.answered /\ (c.resp.rejected \/ c.resp.status \notin 200..299)

\* this step ends a load whose fetch of the room list has failed
RoomsFetchFails == RunEnds /\ Len(last'.calls) = 1 /\ last'.calls[1].ep = "rooms" /\ FetchFailed(last'.calls[1])

\* C11: a load whose fetch of the room list fails (status not 2xx, or
\* transport error) writes neither cache item, neither when it starts the
\* fetch nor when the fetch fails; at the failure the room list becomes empty
\* and the status an error
C11_FailedFetchKeepsCache ==
    [][/\ StartsRoomsFetch => (storage'.rooms = storage.rooms /\ storage'.ts = storage.ts)
       /\ RoomsFetchFails
           => /\ storage'.rooms = storage.rooms
              /\ storage'.ts = storage.ts
              /\ rooms' = EmptyRooms
              /\ statusMessage'.type = "error"]_vars

\* a refresh has failed with status 401 while the cache held a list: the
\* cache still holds it, the displayed list is empty, the status an error
C11_Witness ==
    /\ last.kind = "refresh"
    /\ Len(last.calls) = 1
    /\ FetchFailed(last.calls[1])
    /\ last.calls[1].resp.status = 401
    /\ storage.rooms = Present(Stringify(RoomsA))
    /\ storage.ts = Present(<<48>>)
    /\ rooms = EmptyRooms
    /\ statusMessage.type = "error"

\* the fetch of the room list of the run r was answered with a 2xx status
\* and a JSON body
RoomsFetched(r) ==
    /\ Len(r.calls) = 1
    /\ r.calls[1].ep = "rooms"
    /\ r.calls[1].answered
    /\ ~r.calls[1].resp.rejected
    /\ r.calls[1].resp.status \in 200..299
    /\ JsonParse(r.calls[1].resp.body).ok

\* the list that the fetch of the run r returned
Returned(r) == JsonParse(r.calls[1].resp.body).v

\* C12: when a fetch of the room list succeeds, the displayed list is the
\* returned list, the cached payload is that list and the cached timestamp
\* is the current time, whatever the cache held; while the cache holds both,
\* a loadRooms(token, false) less than 24 hours later shows the same list
\* and issues no call
C12_FetchedListCachedAndReused ==
    [][/\ (RunEnds /\ RoomsFetched(last'))
           => /\ rooms' = Returned(last')
              /\ storage'.rooms.present
              /\ JsonParse(storage'.rooms.v) = [ok |-> TRUE, v |-> Returned(last')]
              /\ storage'.ts = Present(NatToStr(now'))
       /\ (/\ MountLoads
           /\ RoomsFetched(last)
           /\ storage.rooms = Present(Stringify(Returned(last)))
           /\ storage.ts.present
           /\ now' - ParseInt(storage.ts.v).n < 86400000)
           => /\ AdoptsCache
              /\ rooms' = Returned(last)]_vars

\* a fetch has replaced the cached list and its timestamp 0, the page was
\* loaded again later, and the load at the first render has adopted the
\* fetched list with no call
C12_Witness ==
    /\ last.kind = "mount"
    /\ last.usedCache
    /\ last.calls = <<>>
    /\ rooms = RoomsB
    /\ storage.rooms = Present(Stringify(RoomsB))
    /\ storage.ts = Present(<<49>>)
    /\ now = CACHE_DURATION_MS

\* this step is a click on the send button: a submission starts, and waits
\* for its first fetch or has ended at a check
SendClick ==
    /\ clicks' = clicks + 1
    /\ mounted'
    /\ \/ Len(pending') = Len(pending) + 1 /\ pending'[Len(pending')].kind = "send"
       \/ pending' = pending /\ last'.kind = "send"

\* the text of the error status of the first check that the submitted
\* values fail, in the order credential, room, message; <<>> when none fails
FirstFailure(token, roomId, draft) ==
    IF token = <<>> THEN MSG_TOKEN_NOT_SET
    ELSE IF roomId = <<>> THEN MSG_SELECT_ROOM
    ELSE IF Trim(draft) = <<>> THEN MSG_MEMO_EMPTY
    ELSE <<>>

\* C13: a submission checks credential, room and trimmed message in this
\* order; the first check that fails sets its error status and ends the
\* submission with no call, and the draft, the selected room, the room list
\* and localStorage stay as submitted; when no check fails the identity
\* call is issued
C13_ChecksInOrder ==
    [][SendClick
        => IF FirstFailure(apiToken', selectedRoomId', memoContent') # <<>>
           THEN /\ pending' = pending
                /\ last'.calls = <<>>
                /\ last'.pc = "done"
                /\ statusMessage' = Status(FirstFailure(apiToken', selectedRoomId', memoContent'), "error")
                /\ last'.token = apiToken'
                /\ last'.roomId = selectedRoomId'
                /\ last'.message = Trim(memoContent')
                /\ rooms' = rooms
                /\ apiToken' = apiToken
                /\ storage' = storage
           ELSE /\ Len(pending') = Len(pending) + 1
                /\ Len(pending'[Len(pending')].calls) = 1
                /\ pending'[Len(pending')].calls[1].ep = "me"]_vars

\* a submission with a credential, no room and a blank draft has ended with
\* the error of the room check and no call, and the draft is still blank
C13_Witness ==
    /\ last.kind = "send"
    /\ last.token # <<>>
    /\ last.roomId = <<>>
    /\ last.calls = <<>>
    /\ memoContent = <<32>>
    /\ selectedRoomId = <<>>
    /\ statusMessage = Status(MSG_SELECT_ROOM, "error")

\* this step is a click on the save button: a run of handleSaveToken starts
SaveClick ==
    /\ clicks' = clicks + 1
    /\ mounted'
    /\ \/ Len(pending') = Len(pending) + 1 /\ pending'[Len(pending')].kind = "save"
       \/ pending' = pending /\ last'.kind = "save"

\* C14: a save whose input is empty after trimming sets an error status,
\* leaves localStorage as it is and issues no call; any other save stores
\* the trimmed input as the credential, leaves the cache items alone and
\* starts a forced load that fetches the room list with the trimmed input
C14_SaveTrimsAndForces ==
    [][SaveClick
        => IF Trim(apiToken') = <<>>
           THEN /\ statusMessage'.type = "error"
                /\ storage' = storage
                /\ pending' = pending
                /\ last'.calls = <<>>
                /\ rooms' = rooms
           ELSE /\ storage' = [storage EXCEPT !.token = Present(Trim(apiToken'))]
                /\ Len(pending') = Len(pending) + 1
                /\ pending'[Len(pending')].forceFetch
                /\ ~pending'[Len(pending')].usedCache
                /\ pending'[Len(pending')].token = Trim(apiToken')
                /\ Len(pending'[Len(pending')].calls) = 1
                /\ pending'[Len(pending')].calls[1].ep = "rooms"
                /\ pending'[Len(pending')].calls[1].token = Trim(apiToken')]_vars

\* a save of the input " b" over the stored credential "a" waits for its
\* fetch: "b" is stored, the fetch carries "b" and the fresh cache is as
\* it was
C14_Witness ==
    /\ Len(pending) = 1
    /\ pending[1].kind = "save"
    /\ apiToken = <<32, 98>>
    /\ storage.token = Present(<<98>>)
    /\ pending[1].calls[1].token = <<98>>
    /\ storage.rooms = Present(Stringify(RoomsA))
    /\ storage.ts = Present(<<48>>)
    /\ now = 0

\* the task-creation call of the run r was answered with a 2xx status
TaskCreated(r) ==
    /\ Len(r.calls) = 2
    /\ r.calls[2].ep = "tasks"
    /\ r.calls[2].answered
    /\ ~r.calls[2].resp.rejected
    /\ r.calls[2].resp.status \in 200..299

\* this step ends a submission that had issued a call
SendEnds == RunEnds /\ last'.kind = "send"

\* this step takes a submission from its identity call to its
\* task-creation call
SendGoesOn == mounted' = mounted /\ Len(pending') = Len(pending) /\ pending' # pending

\* C15: while the page stays loaded, the draft changes only by typing and
\* by the end of a submission whose task-creation call succeeded, which
\* clears it; a submission that ends at a check, at the identity lookup or
\* at a failed task creation leaves the draft as it is; and no step of a
\* submission after the click changes the selected room, the room list or
\* localStorage
C15_DraftClearedOnSuccessOnly ==
    [][/\ (mounted' /\ memoContent' # memoContent /\ ~SendClick) => (SendEnds /\ TaskCreated(last'))
       /\ SendEnds => memoContent' = IF TaskCreated(last') THEN <<>> ELSE memoContent
       /\ (SendEnds /\ TaskCreated(last')) => statusMessage'.type = "success"
       /\ (SendClick /\ pending' = pending) => Trim(memoContent') = last'.message
       /\ SendGoesOn => memoContent' = memoContent
       /\ (SendEnds \/ SendGoesOn) => (selectedRoomId' = selectedRoomId /\ rooms' = rooms /\ storage' = storage)
       /\ SendClick => (rooms' = rooms /\ storage' = storage)]_vars

\* a submission has ended with an error after the answer 503 of its
\* task-creation call, and the draft is still there
C15_Witness ==
    /\ last.kind = "send"
    /\ Len(last.calls) = 2
    /\ last.calls[2].answered
    /\ last.calls[2].resp.status = 503
    /\ last.result = "error"
    /\ memoContent = <<109, 32>>
    /\ pending = <<>>

\* the status shows the text of a load or of a submission under way
Waiting == statusMessage.text \in {MSG_LOADING, MSG_SENDING}

\* C16: when every fetch is answered or rejected in the end, the loads and
\* submissions that wait for a fetch all come to an end; a run that has
\* issued a call and has ended has set a success or an error status, and the
\* status shows neither the loading nor the sending text while no run waits;
\* the loading or sending text stays until a run ends or the user acts, so
\* it stays for good when the call never returns
C16_RunsComplete ==
    /\ [](pending = <<>> => ~Waiting)
    /\ [][(Waiting /\ statusMessage' # statusMessage) => (RunEnds \/ clicks' # clicks)]_vars
    /\ [](\A r \in Runs : (r.pc = "done" /\ r.calls # <<>>) => r.result \in {"success", "error"})
    /\ (pending # <<>>) ~> (pending = <<>>)

\* a refresh has ended with the answer of its fetch and a success status,
\* and no run waits
C16_Witness ==
    /\ pending = <<>>
    /\ last.kind = "refresh"
    /\ last.pc = "done"
    /\ Len(last.calls) = 1
    /\ last.calls[1].answered
    /\ last.result = "success"
    /\ statusMessage = Status(MSG_ROOMS_DONE, "success")

\* C17: no run retries: a load issues at most one call, to the room-list
\* endpoint; a submission issues at most one identity call and at most one
\* task-creation call; a run that has ended has no call in flight, a run
\* that waits has one, its last, so after an error only a new action of
\* the user issues a call
C17_NoRetry ==
    \A r \in Runs :
        /\ r.kind \in {"mount", "save", "refresh"} => (Len(r.calls) <= 1 /\ CallsTo(r, "rooms") = 1..Len(r.calls))
        /\ r.kind = "send"
            => /\ Cardinality(CallsTo(r, "me")) <= 1
               /\ Cardinality(CallsTo(r, "tasks")) <= 1
               /\ CallsTo(r, "rooms") = {}
        /\ \A k \in 1..Len(r.calls) : r.calls[k].answered <=> (r.pc = "done" \/ k < Len(r.calls))

\* a submission has ended with an error after its identity call was
\* rejected, with that one call and none in flight
C17_Witness ==
    /\ pending = <<>>
    /\ last.kind = "send"
    /\ Len(last.calls) = 1
    /\ last.calls[1].ep = "me"
    /\ last.calls[1].answered
    /\ last.calls[1].resp.rejected
    /\ last.result = "error"

\* the task-creation call that the run r waits for
WaitsForTask(r) == r.kind = "send" /\ r.pc = "awaitTask" /\ Len(r.calls) = 2

\* C18: a waiting submission does not keep a second one from starting: the
\* send button accepts a click whenever the page is loaded (and the bounds
\* on clicks and on waiting runs leave room for one more run); each
\* submission goes its own way, so that every submission whose identity call
\* has resolved an assignee has issued its task-creation call with the
\* draft and the room it read at its click
C18_SubmissionsOverlap ==
    /\ (mounted /\ clicks < MaxClicks /\ Len(pending) < MaxPending) => ENABLED handleSendTask
    /\ \A r \in Runs : (r.kind = "send" /\ r.calls # <<>> /\ ResolvesAssignee(r.calls[1]))
        => /\ Len(r.calls) = 2
           /\ r.calls[2].ep = "tasks"
           /\ r.calls[2].roomId = r.roomId
           /\ r.calls[2].form.body = r.message

\* two submissions wait for their task-creation calls at once, both for the
\* same draft and the same room
C18_Witness ==
    /\ Len(pending) = 2
    /\ WaitsForTask(pending[1])
    /\ WaitsForTask(pending[2])
    /\ pending[1].calls[2].form.body = pending[2].calls[2].form.body
    /\ pending[1].calls[2].roomId = pending[2].calls[2].roomId
    /\ ~pending[1].calls[2].answered
    /\ ~pending[2].calls[2].answered

\* the identifiers of the rooms of the list rs, as the select holds them
RoomIds(rs) == IF rs.t = "arr" THEN {ToStringJS(Prop(rs.v[k], KEY_ROOM_ID)).s : k \in 1..Len(rs.v)} ELSE {}

\* C19: the selected room identifier is empty or the identifier of a room
\* of the displayed list, in every reachable state
C19_SelectionInList == selectedRoomId = <<>> \/ selectedRoomId \in RoomIds(rooms)

\* C20: a list that a load adopts from the cache was fetched with the
\* credential that is stored at that moment
C20_CacheOfStoredCredential ==
    [][(mounted' /\ ~mounted /\ AdoptsCache) => storage.fetchedWith = storage.token]_vars

\* this step ends a load that had issued its fetch
LoadEnds == RunEnds /\ Len(last'.calls) = 1 /\ last'.calls[1].ep = "rooms"

\* C21 as stated: when two loads overlap, the list and the cache end up with
\* the result of the load that started last: the answer to a load that a
\* later load has overtaken changes neither the displayed list nor the cache
C21_LastStartedWins ==
    [][(LoadEnds /\ last'.overtaken) => (rooms' = rooms /\ storage' = storage)]_vars

\* C21 amended: the displayed list is the result of the load whose answer
\* arrives last, and the cache the list of the last answer that was a
\* success, in whatever order the loads started: every answer, the answer to
\* an overtaken load too, sets the list to what it returned, or to the empty
\* list on a failure, and writes the cache exactly when it is a success
C21_LastAnswerWins ==
    [][LoadEnds
        => IF RoomsFetched(last')
           THEN /\ rooms' = Returned(last')
                /\ storage' = [storage EXCEPT !.rooms = Present(Stringify(Returned(last'))), !.ts = Present(NatToStr(now')),
                                              !.fetchedWith = Present(last'.token)]
           ELSE /\ rooms' = EmptyRooms
                /\ storage' = storage]_vars

\* two refreshes overlapped: the second was answered first, with a list that
\* is cached; the answer 401 to the first came later and has emptied the
\* displayed list
C21_Witness ==
    /\ pending = <<>>
    /\ last.kind = "refresh"
    /\ last.overtaken
    /\ Len(last.calls) = 1
    /\ last.calls[1].resp.status = 401
    /\ rooms = EmptyRooms
    /\ statusMessage.type = "error"
    /\ storage.rooms = Present(Stringify(RoomsB))
====
